---- MODULE Spec2Model ----
(***************************************************************************)
(* A model of the SpurGears class of spur_gears.py.                        *)
(*                                                                         *)
(* The object is the record `self` of its instance attributes; an          *)
(* attribute that no statement has assigned yet holds Absent, and reading  *)
(* it raises AttributeError.  gear_char runs as a sequence of steps (one   *)
(* per field visit and one per end-of-pass test); the formula evaluators   *)
(* have no loop over the object's state and run as one step each.          *)
(*                                                                         *)
(* Numbers.  A Python number or a pint Quantity is a record with           *)
(* t = "num" (plain number) or t = "qty" (pint Quantity) and a unit.       *)
(* [t, n, d, e, unit] has the magnitude (n/d) * pi^e, in lowest terms: the *)
(* solver's products and quotients are computed exactly on it (floating-   *)
(* point rounding is not modelled).  [t, f, args, unit] is the result of   *)
(* a formula the code evaluates with math.sin, math.sqrt or a unit         *)
(* conversion factor: f names the formula and args are its operands.       *)
(***************************************************************************)
EXTENDS Integers, Sequences, FiniteSets, TLC

VARIABLES self, pc, call, result, console, ncalls

vars == <<self, pc, call, result, console, ncalls>>

\* ------------------------------------------------------------------ bounds
\* Largest magnitude of a gear_char argument in GearSpec.
MaxMag == 2
\* Number of method calls made on one object in Spec.
MaxCalls == 2

\* ------------------------------------------------------------------ values
\* Python None.
None == [t |-> "None"]
\* A Python string.
Str(s) == [t |-> "str", s |-> s]
\* A pint unit object such as ureg.newton.
Unit(u) == [t |-> "unit", unit |-> u]

IsNum(v) == v.t \in {"num", "qty"}
\* A number whose magnitude is held exactly.
IsExact(v) == IsNum(v) /\ "n" \in DOMAIN v

RECURSIVE GCD(_, _)
GCD(a, b) == IF b = 0 THEN a ELSE GCD(b, a % b)

Abs(x) == IF x < 0 THEN -x ELSE x

\* The exact number (n/d) * pi^e in lowest terms; a zero magnitude is 0.
Exact(t, n, d, e, unit) ==
  IF n = 0 THEN [t |-> t, n |-> 0, d |-> 1, e |-> 0, unit |-> unit]
  ELSE LET g == GCD(Abs(n), Abs(d))
           s == IF d < 0 THEN -1 ELSE 1
       IN [t |-> t, n |-> (s * n) \div g, d |-> (s * d) \div g, e |-> e,
           unit |-> unit]

\* A plain Python number k and a pint Quantity k * unit.
Num(k) == Exact("num", k, 1, 0, "")
Qty(k, unit) == Exact("qty", k, 1, 0, unit)

\* math.pi
Pi == Exact("num", 1, 1, 1, "")

\* --------------------------------------------------- outcomes of a `try`
Ok(v) == [ok |-> TRUE, v |-> v, exc |-> ""]
Raise(exc) == [ok |-> FALSE, v |-> None, exc |-> exc]

\* The object is the function from the names of the attributes assigned so
\* far to their values.  Reading self.<name>:
Attr(s, name) ==
  IF name \in DOMAIN s THEN Ok(s[name]) ELSE Raise("AttributeError")

\* The assignments self.<name> = upd[name], for every name of the record upd.
Assign(s, upd) == upd @@ s

\* ------------------------------------------------ units of the gear solver
\* pint multiplies and divides the units of its operands; the solver's
\* quantities are powers of the one length unit its caller uses.
LenExp(unit) ==
  CASE unit = "1/inch^2" -> -2
    [] unit = "1/inch" -> -1
    [] unit = "inch" -> 1
    [] unit = "inch^2" -> 2
    [] OTHER -> 0

LenUnit(k) ==
  CASE k = -2 -> "1/inch^2"
    [] k = -1 -> "1/inch"
    [] k = 0 -> "dimensionless"
    [] k = 1 -> "inch"
    [] k = 2 -> "inch^2"
    [] OTHER -> "inch^k"

\* The type and unit of a product or quotient: plain only when both are.
ArithT(a, b) == IF a.t = "num" /\ b.t = "num" THEN "num" ELSE "qty"
ArithUnit(a, b, sign) ==
  IF a.t = "num" /\ b.t = "num" THEN ""
  ELSE LenUnit(LenExp(a.unit) + sign * LenExp(b.unit))

\* a * b : TypeError when an operand is None.
Mul(a, b) ==
  IF ~IsNum(a) \/ ~IsNum(b) THEN Raise("TypeError")
  ELSE Ok(Exact(ArithT(a, b), a.n * b.n, a.d * b.d, a.e + b.e,
                ArithUnit(a, b, 1)))

\* a / b : TypeError when an operand is None, ZeroDivisionError on b = 0.
Div(a, b) ==
  IF ~IsNum(a) \/ ~IsNum(b) THEN Raise("TypeError")
  ELSE IF b.n = 0 THEN Raise("ZeroDivisionError")
  ELSE Ok(Exact(ArithT(a, b), a.n * b.d, a.d * b.n, a.e - b.e,
                ArithUnit(a, b, -1)))

\* x * y and x / y of two attribute reads, evaluated left to right.
TryMul(x, y) == IF ~x.ok THEN x ELSE IF ~y.ok THEN y ELSE Mul(x.v, y.v)
TryDiv(x, y) == IF ~x.ok THEN x ELSE IF ~y.ok THEN y ELSE Div(x.v, y.v)

\* ------------------------------------------------------------- the object
\* The object after __init__: only self.ureg is set, which no method changes.
Fresh == <<>>

\* ------------------------------------------------------------- gear_char
Fields == <<"pitch", "teeth_num", "mod", "circular_pitch", "diameter">>
FieldSet == { Fields[i] : i \in 1..Len(Fields) }

\* `while self.index != 6`
MaxPasses == 6
\* `if self.index == 5` guards every message
LastPass == 5

\* FirstForm with the diameter computed as teeth_num * pitch.
FirstFormProduct(s, f) ==
  CASE f = "pitch" -> TryDiv(Attr(s, "teeth_num"), Attr(s, "diameter"))
    [] f = "teeth_num" -> TryMul(Attr(s, "pitch"), Attr(s, "diameter"))
    [] f = "mod" -> TryDiv(Attr(s, "diameter"), Attr(s, "teeth_num"))
    [] f = "circular_pitch" -> TryDiv(Ok(Pi), Attr(s, "pitch"))
    [] f = "diameter" -> TryMul(Attr(s, "teeth_num"), Attr(s, "pitch"))

\* The first expression tried for field f.
FirstForm(s, f) ==
  CASE f = "pitch" -> TryDiv(Attr(s, "teeth_num"), Attr(s, "diameter"))
    [] f = "teeth_num" -> TryMul(Attr(s, "pitch"), Attr(s, "diameter"))
    [] f = "mod" -> TryDiv(Attr(s, "diameter"), Attr(s, "teeth_num"))
    [] f = "circular_pitch" -> TryDiv(Ok(Pi), Attr(s, "pitch"))
    [] f = "diameter" -> TryDiv(Attr(s, "teeth_num"), Attr(s, "pitch"))

\* SecondForm with the module's block misspelling circular_pitch as the
\* pitch block does.
SecondFormTypo(s, f) ==
  CASE f = "pitch" -> TryDiv(Ok(Pi), Attr(s, "cicular_pitch"))
    [] f = "teeth_num" -> TryDiv(Attr(s, "diameter"), Attr(s, "mod"))
    [] f = "mod" -> TryDiv(Attr(s, "cicular_pitch"), Ok(Pi))
    [] f = "circular_pitch" -> TryMul(Ok(Pi), Attr(s, "mod"))
    [] f = "diameter" -> TryMul(Attr(s, "mod"), Attr(s, "teeth_num"))

\* The expression tried when the first one raised.
SecondForm(s, f) ==
  CASE f = "pitch" -> TryDiv(Ok(Pi), Attr(s, "cicular_pitch"))
    [] f = "teeth_num" -> TryDiv(Attr(s, "diameter"), Attr(s, "mod"))
    [] f = "mod" -> TryDiv(Attr(s, "circular_pitch"), Ok(Pi))
    [] f = "circular_pitch" -> TryMul(Ok(Pi), Attr(s, "mod"))
    [] f = "diameter" -> TryMul(Attr(s, "mod"), Attr(s, "teeth_num"))

\* The message printed when neither expression gave field f.
Msg(f) ==
  CASE f = "pitch" -> "GEAR_CHAR: Pitch"
    [] f = "teeth_num" -> "GEAR_CHAR: Number of Teeth"
    [] f = "mod" -> "GEAR_CHAR: Modeule"
    [] f = "circular_pitch" -> "GEAR_CHAR: Cicular Pitch"
    [] f = "diameter" -> "GEAR_CHAR: Diameter"

\* Visit with the derivations under the `if self.index == 5` that guards
\* the messages.
VisitLastPass(s, f) ==
  IF s[f].t # "None" \/ s.index # Num(LastPass) THEN [self |-> s, prn |-> {}]
  ELSE LET first == FirstForm(s, f) IN
       IF first.ok THEN [self |-> [s EXCEPT ![f] = first.v], prn |-> {}]
       ELSE LET second == SecondForm(s, f) IN
            IF second.ok THEN [self |-> [s EXCEPT ![f] = second.v], prn |-> {}]
            ELSE [self |-> [s EXCEPT ![f] = None], prn |-> {Msg(f)}]

\* Visit without the `if self.<f> == None` test.
VisitRecompute(s, f) ==
  LET first == FirstForm(s, f) IN
  IF first.ok THEN [self |-> [s EXCEPT ![f] = first.v], prn |-> {}]
  ELSE LET second == SecondForm(s, f) IN
       IF second.ok THEN [self |-> [s EXCEPT ![f] = second.v], prn |-> {}]
       ELSE [self |-> s, prn |-> {}]

\* One `if self.<f> == None: try ... except: try ... except: ...` block.
Visit(s, f) ==
  IF s[f].t # "None" THEN [self |-> s, prn |-> {}]
  ELSE LET first == FirstForm(s, f) IN
       IF first.ok THEN [self |-> [s EXCEPT ![f] = first.v], prn |-> {}]
       ELSE LET second == SecondForm(s, f) IN
            IF second.ok THEN [self |-> [s EXCEPT ![f] = second.v], prn |-> {}]
            ELSE [self |-> [s EXCEPT ![f] = None],
                  prn |-> IF s.index = Num(LastPass) THEN {Msg(f)} ELSE {}]

\* Incomplete with `and` in place of `or`.
IncompleteAll(s) == \A f \in {"pitch", "teeth_num", "mod", "circular_pitch", "diameter"} : s[f].t = "None"

\* `if self.diameter == None or ... or self.pitch == None`
Incomplete(s) == \E f \in FieldSet : s[f].t = "None"

\* The values a call hands back: a returned tuple or a raised exception.
NoResult == [kind |-> "none", exc |-> "", val |-> <<>>]
Return(vals) == [kind |-> "return", exc |-> "", val |-> vals]
Raised(exc) == [kind |-> "raise", exc |-> exc, val |-> <<>>]

\* The assignments that open gear_char.
GearStart(s, a) ==
  Assign(s, [pitch |-> a[1], teeth_num |-> a[2], mod |-> a[3],
             circular_pitch |-> a[4], diameter |-> a[5], index |-> Num(0)])

\* The end of a pass: count it when a field is missing, else return.
\* done tells whether the call is over (a return, or the loop guard failing,
\* after which the method ends and hands back None).
\* GearIncrement without the increment.
GearIncrementNone(s) == s

\* `self.index += 1`
GearIncrement(s) == [s EXCEPT !.index = Num(@.n + 1)]

PassEnd(s) ==
  IF Incomplete(s)
  THEN LET s2 == GearIncrement(s) IN
       IF s2.index = Num(MaxPasses)
       THEN [self |-> s2, done |-> TRUE, out |-> Return(<<None>>)]
       ELSE [self |-> s2, done |-> FALSE, out |-> NoResult]
  ELSE [self |-> s, done |-> TRUE,
        out |-> Return([i \in 1..Len(Fields) |-> s[Fields[i]]])]

\* ---- gear_char as steps
NextPc(f) ==
  CASE f = "pitch" -> "teeth_num"
    [] f = "teeth_num" -> "mod"
    [] f = "mod" -> "circular_pitch"
    [] f = "circular_pitch" -> "diameter"
    [] f = "diameter" -> "check"

gear_char(a) ==
  /\ pc = "idle"
  /\ self' = GearStart(self, a)
  /\ pc' = "pitch"
  /\ call' = [op |-> "gear_char", args |-> a]
  /\ result' = NoResult
  /\ console' = {}
  /\ ncalls' = ncalls + 1

VisitField ==
  /\ pc \in FieldSet
  /\ LET r == Visit(self, pc) IN
       /\ self' = r.self
       /\ console' = console \cup r.prn
  /\ pc' = NextPc(pc)
  /\ UNCHANGED <<call, result, ncalls>>

EndOfPass ==
  /\ pc = "check"
  /\ LET r == PassEnd(self) IN
       /\ self' = r.self
       /\ result' = r.out
       /\ pc' = IF r.done THEN "idle" ELSE "pitch"
  /\ UNCHANGED <<call, console, ncalls>>

\* ---- the arguments a caller passes to gear_char
OrNone(S) == {None} \cup S
Mags == 0..MaxMag
GearInputs ==
  { <<p, t, m, c, dm>> :
      p \in OrNone({ Qty(k, "1/inch") : k \in Mags }),
      t \in OrNone({ Num(k) : k \in Mags }),
      m \in OrNone({ Qty(k, "inch") : k \in Mags }),
      c \in OrNone({ Exact("qty", k, 1, e, "inch") : k \in Mags, e \in {0, 1} }),
      dm \in OrNone({ Qty(k, "inch") : k \in Mags }) }

\* ---- the solver alone, on every argument list within the bound
Init ==
  /\ self = Fresh
  /\ pc = "idle"
  /\ call = [op |-> "__init__", args |-> <<>>]
  /\ result = NoResult
  /\ console = {}
  /\ ncalls = 0

\* One call on a new object.
GearCall == ncalls = 0 /\ \E a \in GearInputs : gear_char(a)

GearNext == GearCall \/ VisitField \/ EndOfPass

GearSpec == Init /\ [][GearNext]_vars

\* ------------------------------------------------------ pint quantities
\* The dimension pint gives a unit.  Radians and degrees are dimensionless
\* in pint, and rpm is revolutions (dimensionless) per minute.
Dim(u) ==
  CASE u \in {"degree", "radian", "dimensionless"} -> "dimensionless"
    [] u \in {"inch", "millimeter", "meter"} -> "length"
    [] u \in {"newton", "lbf"} -> "force"
    [] u \in {"horsepower", "watt"} -> "power"
    [] u \in {"feet/minute", "meter/second"} -> "velocity"
    [] u \in {"rpm"} -> "1/time"
    [] u \in {"megapascal", "psi"} -> "pressure"
    [] OTHER -> u

\* The result of a formula evaluated in floating point.
Sym(t, f, args, unit) == [t |-> t, f |-> f, args |-> args, unit |-> unit]

\* q.to(target) and q.ito(target): only a Quantity has the methods, and the
\* dimensions must agree.  The same unit leaves the magnitude as it is; any
\* other unit scales it by the conversion factor.
To(q, target) ==
  IF q.t # "qty" THEN Raise("AttributeError")
  ELSE IF target.t # "unit" THEN Raise("TypeError")
  ELSE IF Dim(q.unit) # Dim(target.unit) THEN Raise("DimensionalityError")
  ELSE IF q.unit = target.unit THEN Ok(q)
  ELSE Ok(Sym("qty", "to", <<q>>, target.unit))

\* q.magnitude
Magnitude(q) ==
  IF IsExact(q) THEN Exact("num", q.n, q.d, q.e, "")
  ELSE Sym("num", "magnitude", <<q>>, "")

\* x * ureg.<unit> for a plain number x
TimesUnit(x, unit) == [x EXCEPT !.t = "qty", !.unit = unit]

\* Whether a magnitude is zero: conversion factors are not zero.
RECURSIVE IsZero(_)
IsZero(q) ==
  IF IsExact(q) THEN q.n = 0
  ELSE q.f \in {"to", "magnitude"} /\ IsZero(q.args[1])

\* float(x), as math.sin, math.tan, math.cos and math.sqrt apply it to their
\* argument: None is no number, and a Quantity must be dimensionless.
Float(x) ==
  IF ~IsNum(x) THEN Raise("TypeError")
  ELSE IF x.t = "qty" /\ Dim(x.unit) # "dimensionless"
       THEN Raise("DimensionalityError")
  ELSE Ok(x)

\* The result of one call: the object afterwards, what the call hands back
\* and what it prints.
Res(s, out, prn) == [self |-> s, out |-> out, prn |-> prn]

\* ----------------------------------------------------------- interference
FullDepthAliases == {"Full Depth", "full depth", "FullDepth", "fulldepth", "Full", "full"}
StubTeethAliases == {"Stub Teeth", "stub teeth", "StubTeeth", "stubteeth", "Stub", "stub"}

\* K = 1.00 and K = 0.80
KFullDepth == Exact("num", 100, 100, 0, "")
KStubTeeth == Exact("num", 80, 100, 0, "")

\* The default pressure angle, 20 * ureg.degree.
DefaultAngle == Qty(20, "degree")

\* a = <<pressure_angle, gear_ratio, gear_type>>
interference(s, a) ==
  LET s1 == Assign(s, [pressure_angle |-> a[1], gear_type |-> a[3],
                       gear_ratio |-> a[2]])
      known == a[3].t = "None"
                 \/ (a[3].t = "str" /\ a[3].s \in FullDepthAliases \cup StubTeethAliases)
      K == IF a[3].t = "str" /\ a[3].s \in StubTeethAliases
           THEN KStubTeeth ELSE KFullDepth
  IN
  IF ~known THEN Res(s1, Return(<<None>>), {"Invalid Gear Type"})
  ELSE
    LET s2 == Assign(s1, [K |-> K])
        s3 == IF a[1].t = "None"
              THEN Assign(s2, [pressure_angle |-> DefaultAngle]) ELSE s2
        rad == To(s3.pressure_angle, Unit("radian"))
    IN
    IF ~rad.ok THEN Res(s3, Raised(rad.exc), {})
    ELSE
      LET s4 == Assign(s3, [pressure_angle |-> rad.v])
          sine == Float(rad.v)
      IN
      IF ~IsNum(a[2]) THEN Res(s4, Raised("TypeError"), {})
      ELSE IF ~sine.ok THEN Res(s4, Raised(sine.exc), {})
      ELSE IF IsZero(rad.v) THEN Res(s4, Raised("ZeroDivisionError"), {})
      ELSE LET Np == Sym("num", "N_p", <<K, a[2], rad.v>>, "")
           IN Res(Assign(s4, [N_p |-> Np]), Return(<<Np>>), {})

\* ------------------------------------------------------- transmitted_load
\* a = <<power, pitchline, unit_type>>
transmitted_load(s, a) ==
  LET power == To(a[1], Unit("horsepower"))
      pitchline == To(a[2], Unit("feet/minute"))
      failed == "TRANSMITTED_LOAD: Unit Conversion Failed"
  IN
  IF ~power.ok THEN Res(s, Return(<<None>>), {failed})
  ELSE IF ~pitchline.ok
       THEN Res(Assign(s, [power |-> power.v]), Return(<<None>>), {failed})
  ELSE
    LET s1 == Assign(s, [power |-> power.v, pitchline |-> pitchline.v,
                         unit_type |-> IF a[3].t = "None" THEN Unit("newton")
                                       ELSE a[3]])
    IN
    IF IsZero(pitchline.v) THEN Res(s1, Raised("ZeroDivisionError"), {})
    ELSE
      LET load == Sym("num", "33000*power/pitchline",
                      <<Magnitude(power.v), Magnitude(pitchline.v)>>, "")
          lbf == TimesUnit(load, "lbf")
          s2 == Assign(s1, [load |-> load, output_load_lbf |-> lbf])
          output == To(lbf, s1.unit_type)
      IN
      IF output.ok
      THEN Res(Assign(s2, [output_load |-> output.v]), Return(<<output.v>>), {})
      ELSE Res(s2, Return(<<None>>),
               {"TRANSMITTED_LOAD: User defined output units are not a force unit type."})

\* -------------------------------------------------------- load_components
\* x * y and x / y of a load and a float: a Quantity keeps its unit.
Scaled(f, x, y) == Sym(x.t, f, <<x, y>>, x.unit)

\* a = <<W_t, pressure_angle, unit_type>>
load_components(s, a) ==
  LET s1 == Assign(s, [pressure_angle |-> IF a[2].t = "None" THEN DefaultAngle
                                          ELSE a[2],
                       W_t |-> a[1], unit_type |-> a[3]])
  IN
  IF a[1].t = "None"
  THEN Res(s1, Return(<<None>>),
           {"LOAD_COMPONENTS: Provide a transmitted load in in force units"})
  ELSE
    LET rad == To(s1.pressure_angle, Unit("radian"))
        s2 == Assign(s1, [pressure_angle |-> IF rad.ok THEN rad.v ELSE None])
        prn == IF rad.ok THEN {} ELSE {"LOAD_COMPONENTS: Provide the angle unit!"}
        angle == Float(s2.pressure_angle)
    IN
    IF ~angle.ok THEN Res(s2, Raised(angle.exc), prn)
    ELSE IF ~IsNum(a[1]) THEN Res(s2, Raised("TypeError"), prn)
    ELSE
      LET radial == Scaled("W_t*tan", a[1], angle.v)
          s3 == Assign(s2, [F_radial |-> radial])
          magnitude == Scaled("W_t/cos", a[1], angle.v)
          s4 == Assign(s3, [F_magnitude |-> magnitude])
      IN
      IF a[3].t = "None" THEN Res(s4, Return(<<magnitude, radial>>), prn)
      ELSE
        LET r == To(radial, a[3])
            m == To(magnitude, a[3])
        IN
        IF ~r.ok THEN Res(s4, Raised(r.exc), prn)
        ELSE IF ~m.ok THEN Res(Assign(s4, [F_radial |-> r.v]), Raised(m.exc), prn)
        ELSE Res(Assign(s4, [F_radial |-> r.v, F_magnitude |-> m.v]),
                 Return(<<m.v, r.v>>), prn)

\* ------------------------------------------------------------- pitch_line
\* a = <<diameter, gear_speed, unit_type>>
pitch_line(s, a) ==
  LET diameter == To(a[1], Unit("inch"))
      gear_speed == To(a[2], Unit("rpm"))
      failed == "PITCH_LINE: Unit Conversion Failed"
  IN
  IF ~diameter.ok THEN Res(s, Return(<<None>>), {failed})
  ELSE IF ~gear_speed.ok
       THEN Res(Assign(s, [diameter |-> diameter.v]), Return(<<None>>), {failed})
  ELSE
    LET s1 == Assign(s, [diameter |-> diameter.v, gear_speed |-> gear_speed.v,
                         unit_type |-> IF a[3].t = "None"
                                       THEN Unit("meter/second") ELSE a[3]])
        vel == Sym("num", "pi*diameter*gear_speed/12",
                   <<Magnitude(diameter.v), Magnitude(gear_speed.v)>>, "")
        pitchline == TimesUnit(vel, "feet/minute")
        s2 == Assign(s1, [V |-> vel, pitchline |-> pitchline])
        output == To(pitchline, s1.unit_type)
    IN
    IF output.ok
    THEN Res(Assign(s2, [output_pitchline |-> output.v]), Return(<<output.v>>), {})
    ELSE Res(s2, Return(<<pitchline>>),
             {"PITCH_LINE: User defined output units are not a velocity unit type."})

\* ------------------------------------------------------ lewis_form_factor
\* The tooth counts that have a row in lewis_form_factor_lookup.csv.
TableTeeth == {12, 16}
\* The columns of a row: the tooth count, the factor at 14.5 degrees and
\* the factor at 20 degrees.
RowLen == 3
\* float(row[i]) of the row of tooth count n (i counted from 0).
Cell(n, i) ==
  IF i = 0 THEN Num(n) ELSE Sym("num", "lewis_form_factor_lookup.csv", <<Num(n), Num(i)>>, "")

\* An object the model does not look into (an open file, a csv reader).
Obj(name) == [t |-> "obj", name |-> name]

\* a = <<teeth_num, pressure_angle>>
lewis_form_factor(s, a) ==
  LET s1 == Assign(s, [teeth_num |-> a[1], pressure_angle |-> a[2]])
      deg == IF a[2].t = "None" THEN Ok(DefaultAngle) ELSE To(a[2], Unit("degree"))
  IN
  IF ~deg.ok THEN Res(s1, Raised(deg.exc), {})
  ELSE
    LET s2 == Assign(s1, [pressure_angle |-> deg.v])
        s3 == IF deg.v = DefaultAngle THEN Assign(s2, [index |-> Num(2)])
              ELSE IF deg.v = Exact("qty", 145, 10, 0, "degree")
                   THEN Assign(s2, [index |-> Num(1)])
              ELSE s2
        s4 == Assign(s3, [csv_file |-> Obj("file"), line_count |-> Num(0),
                          reader |-> Obj("csv.reader")])
        matches == IsExact(a[1]) /\ a[1].t = "num" /\ a[1].d = 1 /\ a[1].e = 0
                     /\ a[1].n \in TableTeeth
        index == Attr(s4, "index")
    IN
    IF ~matches THEN Res(s4, Return(<<None>>), {})
    ELSE IF ~index.ok THEN Res(s4, Raised(index.exc), {})
    ELSE IF index.v.n >= RowLen THEN Res(s4, Raised("IndexError"), {})
    ELSE Res(s4, Return(<<Cell(a[1].n, index.v.n)>>), {})

\* --------------------------------------------------------- dynamic_factor
CastAliases ==
  {"cast", "Cast", "castprofile", "CastProfile", "cast profile", "Cast Profile",
   "Cast profile", "castiron", "Castiron", "CastIron", "cast iron", "Cast Iron",
   "Cast iron"}
MillAliases ==
  {"mill", "milled", "Mill", "Milled", "millprofile", "milledprofile",
   "MillProfile", "MilledProfile", "mill profile", "milled profile",
   "Mill Profile", "Milled Profile", "cut", "Cut", "cutprofile", "CutProfile",
   "cut profile", "Cut Profile"}
ShapedAliases ==
  {"shaped", "Shaped", "shapedprofile", "ShapedProfile", "shaped profile",
   "Shaped Profile", "hobbed", "Hobbed", "hobbedprofile", "HobbedProbile",
   "hobbed profile", "Hobbed Profile"}

\* A list of strings without repeated entries.
List(items) == [t |-> "list", items |-> items]
\* <list>.count(profile) == 1
CountIsOne(list, profile) == profile.t = "str" /\ profile.s \in list.items

\* a = <<profile, pitchline>>
dynamic_factor(s, a) ==
  LET s1 == Assign(s, [profile |-> a[1], pitchline |-> a[2]])
      mps == To(a[2], Unit("meter/second"))
  IN
  IF ~mps.ok THEN Res(s1, Raised(mps.exc), {})
  ELSE
    LET s2 == Assign(s1, [pitchline |-> mps.v, cast |-> List(CastAliases),
                          mill |-> List(MillAliases),
                          shaped |-> List(ShapedAliases)])
        root == Float(mps.v)
        shaved == Attr(s2, "shaved")
    IN
    IF CountIsOne(s2.cast, a[1])
    THEN LET Kv == Sym("num", "(3.05+V)/3.05", <<Magnitude(mps.v)>>, "")
         IN Res(Assign(s2, [Kv |-> Kv]), Return(<<Kv>>), {})
    ELSE IF CountIsOne(s2.mill, a[1])
    THEN LET Kv == Sym("num", "(6.1+V)/6.1", <<Magnitude(mps.v)>>, "")
         IN Res(Assign(s2, [Kv |-> Kv]), Return(<<Kv>>), {})
    ELSE IF CountIsOne(s2.shaped, a[1])
    THEN IF ~root.ok THEN Res(s2, Raised(root.exc), {})
         ELSE LET Kv == Sym("num", "(3.56+sqrt(V))/3.56", <<root.v>>, "")
              IN Res(Assign(s2, [Kv |-> Kv]), Return(<<Kv>>), {})
    ELSE IF ~shaved.ok THEN Res(s2, Raised(shaved.exc), {})
    ELSE IF CountIsOne(shaved.v, a[1])
    THEN Res(s2, Raised("DimensionalityError"), {})
    ELSE Res(s2, Return(<<None>>), {"DYNAMIC FACTOR: Please specify the profile"})

\* ------------------------------------------------------------ spur_stress
\* a = <<Kv, F_tan, mod, Face_width, Y, unit_type>>
spur_stress(s, a) ==
  LET s1 == Assign(s, [Kv |-> a[1]])
      F_tan == To(a[2], Unit("newton"))
      mod == To(a[3], Unit("millimeter"))
      Face_width == To(a[4], Unit("millimeter"))
  IN
  IF ~F_tan.ok THEN Res(s1, Raised(F_tan.exc), {})
  ELSE IF ~mod.ok THEN Res(Assign(s1, [F_tan |-> F_tan.v]), Raised(mod.exc), {})
  ELSE IF ~Face_width.ok
  THEN Res(Assign(s1, [F_tan |-> F_tan.v, mod |-> mod.v]), Raised(Face_width.exc), {})
  ELSE
    LET s2 == Assign(s1, [F_tan |-> F_tan.v, mod |-> mod.v,
                          Face_width |-> Face_width.v, Y |-> a[5],
                          unit_type |-> a[6]])
    IN
    IF ~IsNum(a[1]) \/ ~IsNum(a[5]) THEN Res(s2, Raised("TypeError"), {})
    ELSE IF IsZero(Face_width.v) \/ IsZero(mod.v) \/ IsZero(a[5])
    THEN Res(s2, Raised("ZeroDivisionError"), {})
    ELSE
      LET stress == Sym("num", "Kv*F_tan/(Face_width*mod*Y)",
                        <<a[1], Magnitude(F_tan.v), Magnitude(Face_width.v),
                          Magnitude(mod.v), a[5]>>, "")
          mpa == TimesUnit(stress, "megapascal")
          s3 == Assign(s2, [stress |-> stress, stress_output |-> mpa])
          output == IF a[6].t = "None" THEN Ok(mpa) ELSE To(mpa, a[6])
      IN
      IF ~output.ok THEN Res(s3, Raised(output.exc), {})
      ELSE Res(Assign(s3, [stress_output |-> output.v]), Return(<<output.v>>), {})

\* ------------------------------------------- gear_char as one operation
RECURSIVE VisitFrom(_, _)
\* The visits of one pass from field number i on; r is the object and the
\* messages so far.
VisitThen(r, v, i) == VisitFrom([self |-> v.self, prn |-> r.prn \cup v.prn], i)
VisitFrom(r, i) ==
  IF i > Len(Fields) THEN r ELSE VisitThen(r, Visit(r.self, Fields[i]), i + 1)

RECURSIVE Passes(_)
\* The `while` loop from the start of a pass on.
PassThen(r, e) ==
  IF e.done THEN Res(e.self, e.out, r.prn)
  ELSE Passes([self |-> e.self, prn |-> r.prn])
PassClose(r) == PassThen(r, PassEnd(r.self))
Passes(r) == PassClose(VisitFrom(r, 1))

\* a = <<pitch, teeth_num, mod, circular_pitch, diameter>>
gear_char_run(s, a) == Passes([self |-> GearStart(s, a), prn |-> {}])

\* ------------------------------------------------- the calls of a caller
InterferenceArgs ==
  { <<pa, gr, gt>> :
      pa \in {None, Qty(20, "degree"), Num(20), Qty(1, "inch")},
      gr \in {Num(1), Num(2)},
      gt \in {None, Str("Full Depth"), Str("full"), Str("FULLDEPTH"),
              Str("Stub"), Str("helical")} }

TransmittedLoadArgs ==
  { <<pw, pl, ut>> :
      pw \in {Num(0), Qty(35, "horsepower"), Qty(1, "inch")},
      pl \in {Num(0), Qty(628, "feet/minute"), Qty(0, "feet/minute"),
              Qty(3, "meter/second")},
      ut \in {None, Unit("lbf"), Unit("inch")} }

LoadComponentsArgs ==
  { <<wt, pa, ut>> :
      wt \in {None, Qty(100, "newton"), Num(100)},
      pa \in {None, Qty(20, "degree"), Num(20), Qty(1, "inch")},
      ut \in {None, Unit("lbf"), Unit("inch")} }

PitchLineArgs ==
  { <<dm, gs, ut>> :
      dm \in {Num(0), Qty(2, "inch"), Qty(2, "newton")},
      gs \in {Num(0), Qty(1200, "rpm")},
      ut \in {None, Unit("feet/minute"), Unit("newton")} }

GearArgs ==
  { <<None, None, None, None, None>>,
    <<Qty(8, "1/inch"), Num(16), None, None, None>>,
    <<None, Num(16), None, None, Qty(2, "inch")>>,
    <<None, None, None, Qty(1, "inch"), Qty(2, "inch")>>,
    <<None, None, Qty(1, "inch"), None, None>>,
    <<Qty(1, "1/inch"), Num(0), None, None, Qty(2, "inch")>>,
    <<Qty(8, "1/inch"), Num(16), Qty(1, "inch"), Qty(1, "inch"), Qty(2, "inch")>> }

LewisArgs ==
  { <<tn, pa>> :
      tn \in {None, Num(16), Num(99)},
      pa \in {None, Qty(20, "degree"), Exact("qty", 145, 10, 0, "degree"),
              Qty(25, "degree"), Num(20)} }

DynamicFactorArgs ==
  { <<pf, pl>> :
      pf \in {None, Str("cast"), Str("mill"), Str("hobbed"), Str("shaved"),
              Str("forged")},
      pl \in {Num(0), Qty(3, "meter/second"), Qty(628, "feet/minute"),
              Qty(1, "newton")} }

SpurStressArgs ==
  { <<kv, ft, md, fw, y, ut>> :
      kv \in {Num(1)},
      ft \in {Qty(365, "lbf"), Num(365)},
      md \in {Qty(2, "millimeter"), Qty(0, "inch")},
      fw \in {Qty(1, "inch")},
      y \in {Sym("num", "lewis_form_factor_lookup.csv", <<Num(16), Num(2)>>, ""), None},
      ut \in {None, Unit("psi"), Unit("inch")} }

\* A method without a loop over the object's state, called with the
\* arguments a and returned from; r is what it does.
Call(name, a, r) ==
  /\ ncalls < MaxCalls
  /\ self' = r.self
  /\ result' = r.out
  /\ console' = r.prn
  /\ call' = [op |-> name, args |-> a]
  /\ pc' = "idle"
  /\ ncalls' = ncalls + 1

CallInterference ==
  /\ pc = "idle"
  /\ \E a \in InterferenceArgs : Call("interference", a, interference(self, a))
CallTransmittedLoad ==
  /\ pc = "idle"
  /\ \E a \in TransmittedLoadArgs : Call("transmitted_load", a, transmitted_load(self, a))
CallLoadComponents ==
  /\ pc = "idle"
  /\ \E a \in LoadComponentsArgs : Call("load_components", a, load_components(self, a))
CallPitchLine ==
  /\ pc = "idle"
  /\ \E a \in PitchLineArgs : Call("pitch_line", a, pitch_line(self, a))
CallLewisFormFactor ==
  /\ pc = "idle"
  /\ \E a \in LewisArgs : Call("lewis_form_factor", a, lewis_form_factor(self, a))
CallDynamicFactor ==
  /\ pc = "idle"
  /\ \E a \in DynamicFactorArgs : Call("dynamic_factor", a, dynamic_factor(self, a))
CallSpurStress ==
  /\ pc = "idle"
  /\ \E a \in SpurStressArgs : Call("spur_stress", a, spur_stress(self, a))
CallGearChar == ncalls < MaxCalls /\ \E a \in GearArgs : gear_char(a)

Next ==
  \/ CallInterference \/ CallTransmittedLoad \/ CallLoadComponents
  \/ CallPitchLine \/ CallLewisFormFactor \/ CallDynamicFactor
  \/ CallSpurStress \/ CallGearChar \/ VisitField \/ EndOfPass

Spec == Init /\ [][Next]_vars

\* ------------------------------------------------- claims about gear_char
InGear == call.op = "gear_char"
GearDone == InGear /\ pc = "idle"
\* The positions of the arguments that were supplied.
KnownIn(a) == { i \in 1..Len(Fields) : a[i].t # "None" }
\* The fields of the object that hold a value.
KnownNow(s) == { i \in 1..Len(Fields) : s[Fields[i]].t # "None" }
Solved(r) == r.kind = "return" /\ Len(r.val) = Len(Fields)
                /\ \A i \in 1..Len(Fields) : IsNum(r.val[i])
Unsolvable(r) == r = Return(<<None>>)

\* Equal magnitude and equal power of the length unit.
SameValue(a, b) ==
  a.n = b.n /\ a.d = b.d /\ a.e = b.e /\ LenExp(a.unit) = LenExp(b.unit)
Is(v, try) == try.ok /\ SameValue(v, try.v)

\* pitch = teeth_num/diameter, module = diameter/teeth_num,
\* circular_pitch = pi/pitch = pi*module, diameter = module*teeth_num.
Identities(v) ==
  /\ Is(v[1], Div(v[2], v[5]))
  /\ Is(v[3], Div(v[5], v[2]))
  /\ Is(v[4], Div(Pi, v[1]))
  /\ Is(v[4], Mul(Pi, v[3]))
  /\ Is(v[5], Mul(v[3], v[2]))

\* Exactly two independent arguments, none of them zero.
IndependentPair(a) ==
  /\ Cardinality(KnownIn(a)) = 2
  /\ KnownIn(a) \cap {2, 5} # {}
  /\ \A i \in KnownIn(a) : a[i].n # 0

\* C1: a call with exactly two independent known arguments, both non-zero
\* (teeth_num with diameter, or one of them with one of pitch, module,
\* circular_pitch), and the other three unknown ends with all five fields
\* known, and the returned values satisfy the four identities.
C1_TwoKnownSolved ==
  (GearDone /\ IndependentPair(call.args))
    => (Solved(result) /\ Identities(result.val))

\* diameter with circular_pitch: the pair that needs three passes.
C1_Witness ==
  /\ GearDone /\ IndependentPair(call.args) /\ KnownIn(call.args) = {4, 5}
  /\ Solved(result) /\ self.index = Num(2)

\* C2: a call with at most one known argument ends Unsolvable (it hands
\* back None) and never a five-field set.
C2_AtMostOneUnsolvable ==
  (InGear /\ Cardinality(KnownIn(call.args)) <= 1)
    => /\ result.kind = "return" => Unsolvable(result)
       /\ GearDone => Unsolvable(result)

C2_Witness ==
  /\ GearDone /\ KnownIn(call.args) = {1} /\ call.args[1].n # 0
  /\ Unsolvable(result) /\ KnownNow(self) = {1, 3, 4}

\* The two forms of each field as the claim lists them.
ClaimForm(s, f, k) ==
  CASE f = "pitch" /\ k = 1 -> Div(s.teeth_num, s.diameter)
    [] f = "pitch" /\ k = 2 -> Div(Pi, s.circular_pitch)
    [] f = "teeth_num" /\ k = 1 -> Mul(s.pitch, s.diameter)
    [] f = "teeth_num" /\ k = 2 -> Div(s.diameter, s.mod)
    [] f = "mod" /\ k = 1 -> Div(s.diameter, s.teeth_num)
    [] f = "mod" /\ k = 2 -> Div(s.circular_pitch, Pi)
    [] f = "circular_pitch" /\ k = 1 -> Div(Pi, s.pitch)
    [] f = "circular_pitch" /\ k = 2 -> Mul(Pi, s.mod)
    [] f = "diameter" /\ k = 1 -> Div(s.teeth_num, s.pitch)
    [] f = "diameter" /\ k = 2 -> Mul(s.mod, s.teeth_num)

\* C3: in every pass each still-unknown field is given the value of its
\* first form when that form can be evaluated, otherwise the value of its
\* second form when that one can, and stays unknown only when neither can.
\* (A form whose division faults is counted here as one that cannot be
\* evaluated.)
C3_FirstThenSecondForm ==
  [][(pc \in FieldSet /\ self[pc].t = "None") =>
       LET a == ClaimForm(self, pc, 1)
           b == ClaimForm(self, pc, 2)
       IN self'[pc] = IF a.ok THEN a.v ELSE IF b.ok THEN b.v ELSE None]_vars

\* A derivation tried in this step divides by zero.
DivisionFault(s, f) ==
  \/ FirstForm(s, f).exc = "ZeroDivisionError"
  \/ ~FirstForm(s, f).ok /\ SecondForm(s, f).exc = "ZeroDivisionError"
ZeroInput(a) == \E i \in KnownIn(a) : a[i].n = 0

\* C4: when a known argument is zero and a derivation divides by it, the
\* call ends there with the outcome InvalidInput: the fault is not taken as
\* "derivation unavailable" and the call ends neither Solved nor Unsolvable.
C4_ZeroIsInvalidInput ==
  [][(pc \in FieldSet /\ self[pc].t = "None" /\ ZeroInput(call.args)
        /\ DivisionFault(self, pc))
       => (pc' = "idle" /\ result' = Raised("InvalidInput"))]_vars

\* The position of the call: passes counted so far, then the place in the pass.
Pos(p) ==
  CASE p = "pitch" -> 0 [] p = "teeth_num" -> 1 [] p = "mod" -> 2
    [] p = "circular_pitch" -> 3 [] p = "diameter" -> 4 [] OTHER -> 5
Measure(s, p) == s.index.n * (Len(Fields) + 1) + Pos(p)

\* C5: whatever is known, the call makes progress at every step, never
\* raises, and ends within 6 passes: at the end of the first pass with all
\* five fields known it returns them, and at the end of the sixth pass that
\* leaves a field unknown it stops with the Unsolvable outcome.
C5_EndsWithinSixPasses ==
  [][(InGear /\ pc # "idle") =>
       /\ self.index.n < MaxPasses
       /\ pc' # "idle" => Measure(self', pc') > Measure(self, pc)
       /\ pc' = "idle" => (Solved(result') \/ Unsolvable(result'))
       /\ pc = "check" =>
            IF KnownNow(self) = 1..Len(Fields)
            THEN /\ pc' = "idle" /\ Solved(result')
                 /\ \A i \in 1..Len(Fields) : result'.val[i] = self[Fields[i]]
            ELSE IF self.index.n = MaxPasses - 1
                 THEN pc' = "idle" /\ Unsolvable(result')
                 ELSE pc' = "pitch" /\ result' = NoResult]_vars

\* Unsolvable after six passes: teeth_num and diameter supplied, one of
\* them zero, so that a quotient faults in every pass.
C5_Witness ==
  /\ GearDone /\ Unsolvable(result) /\ self.index = Num(MaxPasses)
  /\ KnownIn(call.args) = {2, 5}

\* The fields a returned value names.
NamedBy(r) == { f \in FieldSet : \E i \in 1..Len(r.val) : r.val[i] = Str(f) }
\* The fields the printed messages name.
Printed == { f \in FieldSet : Msg(f) \in console }
UnknownNow(s) == { f \in FieldSet : s[f].t = "None" }

\* C6: when the call ends Unsolvable, the value handed to the caller names
\* exactly the fields that are still unknown.
C6_ResultNamesUnknown ==
  (GearDone /\ ~Solved(result)) => NamedBy(result) = UnknownNow(self)

\* C7: during a call a field that holds a value keeps it, every supplied
\* argument is handed back unchanged, and a call with all five arguments
\* supplied returns them as they are at the end of the first pass.
C7_KnownFieldsKept ==
  [][(InGear /\ pc # "idle") =>
       /\ \A f \in FieldSet : IsNum(self[f]) => self'[f] = self[f]
       /\ \A i \in KnownIn(call.args) : self'[Fields[i]] = call.args[i]
       /\ (pc' = "idle" /\ Solved(result')) =>
            \A i \in KnownIn(call.args) : result'.val[i] = call.args[i]
       /\ (pc = "check" /\ KnownIn(call.args) = 1..Len(Fields)) =>
            /\ pc' = "idle" /\ result' = Return(call.args)
            /\ self'.index = Num(0)]_vars

\* Five supplied values that contradict one another, returned as given.
C7_Witness ==
  /\ GearDone /\ KnownIn(call.args) = 1..Len(Fields)
  /\ \A i \in 1..Len(Fields) : call.args[i].n # 0
  /\ ~Identities(call.args)
  /\ result = Return(call.args) /\ self.index = Num(0)

\* The steps of gear_char and gear_char as one operation do the same.
StepsAgreeWithRun ==
  (GearDone /\ ncalls = 1)
    => gear_char_run(Fresh, call.args) = Res(self, result, console)

\* ------------------------------------------ claims about the evaluators
\* C8: whatever calls were made on the object before, every method hands
\* back, for every argument list, what it hands back on a new object.
C8_StatelessOutcomes ==
  pc = "idle" =>
    /\ \A a \in InterferenceArgs :
         interference(self, a).out = interference(Fresh, a).out
    /\ \A a \in TransmittedLoadArgs :
         transmitted_load(self, a).out = transmitted_load(Fresh, a).out
    /\ \A a \in LoadComponentsArgs :
         load_components(self, a).out = load_components(Fresh, a).out
    /\ \A a \in PitchLineArgs :
         pitch_line(self, a).out = pitch_line(Fresh, a).out
    /\ \A a \in GearArgs :
         gear_char_run(self, a).out = gear_char_run(Fresh, a).out
    /\ \A a \in LewisArgs :
         lewis_form_factor(self, a).out = lewis_form_factor(Fresh, a).out
    /\ \A a \in DynamicFactorArgs :
         dynamic_factor(self, a).out = dynamic_factor(Fresh, a).out
    /\ \A a \in SpurStressArgs :
         spur_stress(self, a).out = spur_stress(Fresh, a).out

\* The aliases of one gear type that the claim names.
ClaimFullDepth == {Str("full"), Str("Full Depth"), Str("FULLDEPTH")}

\* C9: interference called with "full", "Full Depth" or "FULLDEPTH" selects
\* K = 1.00, does not end as an invalid gear type, and hands back what it
\* hands back for "Full Depth" with the same pressure_angle and gear_ratio.
C9_FullDepthAliasesAgree ==
  (pc = "idle" /\ call.op = "interference" /\ call.args[3] \in ClaimFullDepth)
    => /\ Attr(self, "K") = Ok(KFullDepth)
       /\ "Invalid Gear Type" \notin console
       /\ result = interference(Fresh, <<call.args[1], call.args[2],
                                         Str("Full Depth")>>).out

\* The profile names of the claim that no alias list of the code holds.
ClaimShaved == {"shaved", "Shaved"}
ClaimProfiles == CastAliases \cup MillAliases \cup ShapedAliases \cup ClaimShaved
ValidPitchline(q) == q.t = "qty" /\ Dim(q.unit) = "velocity"

\* C10: with a valid pitchline, dynamic_factor called with a string that is
\* no profile alias hands back an error value (it does not raise), and
\* called with a Shaved profile it hands back a factor.
C10_InvalidProfileIsValue ==
  (pc = "idle" /\ call.op = "dynamic_factor" /\ ValidPitchline(call.args[2])
     /\ call.args[1].t = "str")
    => IF call.args[1].s \in ClaimProfiles
       THEN call.args[1].s \in ClaimShaved
              => (result.kind = "return" /\ IsNum(result.val[1]))
       ELSE result = Return(<<None>>)

\* ------------------------------------------------ claims about pitch_line
\* What the claim asks of the arguments: a length, a rotational speed and,
\* when an output unit is given, a velocity unit.
IsLength(q) == q.t = "qty" /\ Dim(q.unit) = "length"
IsRotationalSpeed(q) == q.t = "qty" /\ Dim(q.unit) = "1/time"
IsVelocityUnit(u) == u.t = "None" \/ (u.t = "unit" /\ Dim(u.unit) = "velocity")
\* The call handed back a number (plain or Quantity).
GaveValue(r) == r.kind = "return" /\ \E i \in 1..Len(r.val) : IsNum(r.val[i])
PitchLineDone == pc = "idle" /\ call.op = "pitch_line"

\* C11: pitch_line hands back no velocity value when diameter is no length
\* or gear_speed no rotational speed, and none when the requested output
\* unit is no velocity unit: it does not hand back the result in another
\* unit.
C11_NoFallbackUnit ==
  (PitchLineDone /\ (~IsLength(call.args[1]) \/ ~IsRotationalSpeed(call.args[2])
                       \/ ~IsVelocityUnit(call.args[3])))
    => ~GaveValue(result)

\* The first half alone: unconvertible inputs end with None and the message.
PitchLineInputsRejected ==
  (PitchLineDone /\ (~IsLength(call.args[1]) \/ ~IsRotationalSpeed(call.args[2])))
    => (result = Return(<<None>>) /\ console = {"PITCH_LINE: Unit Conversion Failed"})

\* The second half alone: what comes back for an output unit of another
\* dimension is the velocity in feet/minute.
PitchLineFallsBack ==
  (PitchLineDone /\ IsLength(call.args[1]) /\ IsRotationalSpeed(call.args[2])
     /\ ~IsVelocityUnit(call.args[3]))
    => (result = Return(<<self.pitchline>>) /\ self.pitchline.unit = "feet/minute")

\* ------------------------------------------- claims about load_components
\* A pressure angle without angular units: a bare number, or a Quantity of
\* another dimension.
LacksAngleUnit(q) ==
  q.t = "num" \/ (q.t = "qty" /\ q.unit \notin {"degree", "radian", "dimensionless"})
LoadComponentsDone == pc = "idle" /\ call.op = "load_components"
MissingLoad == "LOAD_COMPONENTS: Provide a transmitted load in in force units"

\* C12: load_components with W_t given and a pressure_angle without angular
\* units ends with an error outcome: it neither raises from the
\* trigonometric step nor hands back components.  With W_t absent it ends
\* with the missing-input outcome whatever the angle is.
C12_AngleWithoutUnitIsOutcome ==
  LoadComponentsDone =>
    /\ call.args[1].t = "None" =>
         (result = Return(<<None>>) /\ console = {MissingLoad})
    /\ (call.args[1].t # "None" /\ LacksAngleUnit(call.args[2])) =>
         (result.kind = "return" /\ ~GaveValue(result))

\* The second half alone.
LoadComponentsMissingInput ==
  (LoadComponentsDone /\ call.args[1].t = "None") =>
    (result = Return(<<None>>) /\ console = {MissingLoad})

\* What the code does for an angle without units: the message, then the
\* TypeError of math.tan(None).
LoadComponentsTrigRaises ==
  (LoadComponentsDone /\ call.args[1].t # "None" /\ LacksAngleUnit(call.args[2])) =>
    /\ result = Raised("TypeError")
    /\ console = {"LOAD_COMPONENTS: Provide the angle unit!"}
    /\ self.pressure_angle = None

\* ------------------------------------------ claims about the pass bound
RECURSIVE PassesFrom(_, _)
\* s is the object at the end-of-pass test of some pass: the object at the
\* end-of-pass test k passes later, or at the test where the call returns.
PassesFrom(s, k) ==
  IF k = 0 \/ ~Incomplete(s) THEN s
  ELSE PassesFrom(VisitFrom([self |-> PassEnd(s).self, prn |-> {}], 1).self,
                  k - 1)

\* The object at the end-of-pass test of pass k (k = 1, 2, ...) of the call
\* gear_char(a) on a new object.
PassState(a, k) ==
  PassesFrom(VisitFrom([self |-> GearStart(Fresh, a), prn |-> {}], 1).self,
             k - 1)

\* The fields known when the call starts (k = 0) and at the end of pass k.
KnownAfter(a, k) == IF k = 0 THEN KnownIn(a) ELSE KnownNow(PassState(a, k))

\* The number of the pass that is ending at the end-of-pass test.
PassNow == self.index.n + 1

\* C13: at the end of the sixth pass the known fields are those of the end
\* of the fifth pass, and a field is still unknown (a call that is ever
\* solved returns by the end of the fifth pass); and at the end of any pass
\* that follows a pass which derived no field, no field has been derived
\* since.  (The first conjunct ties the known sets of the earlier passes to
\* the run.)
C13_FivePassesSuffice ==
  (InGear /\ pc = "check") =>
    /\ KnownNow(self) = KnownAfter(call.args, PassNow)
    /\ PassNow = MaxPasses =>
         /\ KnownAfter(call.args, MaxPasses - 1) = KnownNow(self)
         /\ Incomplete(self)
    /\ \A j \in 1..(PassNow - 1) :
         KnownAfter(call.args, j) = KnownAfter(call.args, j - 1)
           => KnownNow(self) = KnownAfter(call.args, j)

\* The end of the sixth pass of a call with only pitch known: the first two
\* passes derived circular_pitch and the module, the later ones nothing.
C13_Witness ==
  /\ InGear /\ pc = "check" /\ PassNow = MaxPasses
  /\ KnownIn(call.args) = {1} /\ call.args[1].n # 0
  /\ KnownAfter(call.args, 1) = {1, 4}
  /\ KnownAfter(call.args, 2) = {1, 3, 4}
  /\ KnownNow(self) = {1, 3, 4}

\* ----------------------------------------- claims about what is solvable
\* Every supplied argument is non-zero.
NonZeroKnown(a) == \A i \in KnownIn(a) : a[i].n # 0
\* The known sets the claim calls solvable: teeth_num (2) with diameter (5),
\* or one of them with one of pitch (1), module (3), circular_pitch (4).
ClaimSolvable(K) ==
  \/ {2, 5} \subseteq K
  \/ (K \cap {2, 5} # {} /\ K \cap {1, 3, 4} # {})

\* C14: a call whose supplied arguments are all non-zero returns the five
\* fields exactly when the supplied ones include teeth_num and diameter, or
\* one of them and one of pitch, module, circular_pitch; with any other
\* supplied set it ends Unsolvable.
C14_SolvableIff ==
  (GearDone /\ NonZeroKnown(call.args)) =>
    /\ Solved(result) <=> ClaimSolvable(KnownIn(call.args))
    /\ ~ClaimSolvable(KnownIn(call.args)) => Unsolvable(result)

\* Three fields supplied and still Unsolvable: pitch, module, circular_pitch.
C14_Witness ==
  /\ GearDone /\ NonZeroKnown(call.args) /\ KnownIn(call.args) = {1, 3, 4}
  /\ Unsolvable(result) /\ self.index = Num(MaxPasses)

\* Three fields supplied, one of them teeth_num, and solved.
SolvedFromThree ==
  /\ GearDone /\ NonZeroKnown(call.args) /\ KnownIn(call.args) = {2, 3, 4}
  /\ Solved(result)
====
